---------------------------- MODULE Spec2Model ----------------------------
(***************************************************************************)
(* A model of rampage/call_peak.py: the gene iterator (parse_gene), the    *)
(* per-gene task (call_peak_for_gene and the functions it calls) and the   *)
(* orchestrator (call_peak: pool, aggregation, q-values, output).          *)
(*                                                                         *)
(* Conventions.  A tab-separated record of a file is a TLA+ record of its  *)
(* fields.  Coordinates are integers.  A p-value is an integer number of   *)
(* hundredths; a q-value is the pair <<numerator, denominator>> of the     *)
(* quotient the code computes, in the same unit.  A chromosome name is a   *)
(* sequence of characters, so that startswith('chr') is computed.          *)
(***************************************************************************)
EXTENDS Integers, Sequences, FiniteSets, TLC

VARIABLES
    \* ---- a function under study, applied once to drawn inputs
    arg, ret, called,
    \* ---- parse_gene (a generator): its input and its local variables
    ref_flag, db, lineno, gname, gstart, gend, gchr, gstrand, gpromoter,
    yielded, ppc,
    \* ---- call_peak: the pool, the aggregation and the output file
    genes, nsub, done, result, pc, cursor, gets, peaks, pvalue, rank,
    qvalue, opened, outf

fnVars == <<arg, ret, called>>
parseVars == <<ref_flag, db, lineno, gname, gstart, gend, gchr, gstrand,
               gpromoter, yielded, ppc>>
runVars == <<genes, nsub, done, result, pc, cursor, gets, peaks, pvalue,
             rank, qvalue, opened, outf>>
vars == <<fnVars, parseVars, runVars>>

-----------------------------------------------------------------------------
(* Helpers *)

Abs(x) == IF x < 0 THEN -x ELSE x

Max2(a, b) == IF a > b THEN a ELSE b

Range(q) == {q[i] : i \in 1..Len(q)}

RECURSIVE SeqsUpTo(_, _)
SeqsUpTo(S, n) ==
    IF n = 0 THEN {<<>>}
    ELSE LET shorter == SeqsUpTo(S, n - 1)
         IN  shorter \cup {Append(q, x) : q \in shorter, x \in S}

\* The enumerations of a finite set (every order a Python set may iterate in).
Orders(S) ==
    {q \in [1..Cardinality(S) -> S] : \A x \in S : \E i \in DOMAIN q : q[i] = x}

RECURSIVE Flatten(_)
Flatten(qq) == IF qq = <<>> THEN <<>> ELSE Head(qq) \o Flatten(Tail(qq))

CHR == <<"c", "h", "r">>

\* str.startswith('chr'), case-sensitive
StartsWithChr(chrom) == Len(chrom) >= 3 /\ SubSeq(chrom, 1, 3) = CHR

chr1 == CHR \o <<"1">>
chr2 == CHR \o <<"2">>

-----------------------------------------------------------------------------
(* The interval library (class Interval): merged interval lists.           *)
(* An interval is [s, e, lab]: start, end and the labels attached to it.   *)

IvLess(a, b) == a.s < b.s \/ (a.s = b.s /\ a.e < b.e)

RECURSIVE IvInsert(_, _)
IvInsert(x, sorted) ==
    IF sorted = <<>> THEN <<x>>
    ELSE IF ~IvLess(Head(sorted), x) THEN <<x>> \o sorted
    ELSE <<Head(sorted)>> \o IvInsert(x, Tail(sorted))

RECURSIVE IvSort(_)
IvSort(q) == IF q = <<>> THEN <<>> ELSE IvInsert(Head(q), IvSort(Tail(q)))

RECURSIVE IvMergeFrom(_, _)
IvMergeFrom(a, rest) ==
    IF rest = <<>> THEN <<a>>
    ELSE LET b == Head(rest)
         IN  IF a.e < b.s
             THEN <<a>> \o IvMergeFrom(b, Tail(rest))
             ELSE IvMergeFrom([s |-> a.s, e |-> Max2(a.e, b.e),
                               lab |-> a.lab \o b.lab], Tail(rest))

\* Interval(list): overlapping or touching intervals combined, labels kept
Interval(list) ==
    IF list = <<>> THEN <<>>
    ELSE LET srt == IvSort(list) IN IvMergeFrom(Head(srt), Tail(srt))

\* Interval.mapto([pos, pos], index): the intervals of index that hold pos
mapto(pos, index) ==
    LET Covers(iv) == iv.s <= pos /\ pos < iv.e IN SelectSeq(index, Covers)

-----------------------------------------------------------------------------
(* An indexed (tabix) file is the sequence of its records; fetch returns   *)
(* the records of a chromosome overlapping the half-open region.           *)

Contigs(file) == {file[i].chrom : i \in 1..Len(file)}

TabixFetch(file, chrom, start, end) ==
    LET Hit(r) == r.chrom = chrom /\ r.start < end /\ r.end > start
    IN  SelectSeq(file, Hit)

-----------------------------------------------------------------------------
(* assign_peak *)

FLANK5 == 10

End5(l, g_strand) == IF g_strand = "+" THEN l.start ELSE l.end

Read3(l, g_strand) == IF g_strand = "+" THEN l.end ELSE l.start

\* one iteration of the loop: TRUE when the alignment reaches the append
AssignKeeps(l, g_start, g_end, g_strand, prom) ==
    /\ IF g_strand = "+" THEN l.strand # "-" ELSE l.strand # "+"
    /\ ~(Read3(l, g_strand) < g_start \/ Read3(l, g_strand) > g_end)
    /\ ~(End5(l, g_strand) < g_start - prom \/ End5(l, g_strand) > g_end + prom)

\* the alignments that reach the append, in file order
assign_kept(rampage, g_chrom, g_start, g_end, g_strand, prom) ==
    IF g_chrom \notin Contigs(rampage) THEN <<>>
    ELSE LET Keeps(l) == AssignKeeps(l, g_start, g_end, g_strand, prom)
         IN  SelectSeq(TabixFetch(rampage, g_chrom, g_start, g_end), Keeps)

assign_peak(rampage, g_chrom, g_start, g_end, g_strand, prom) ==
    LET kept == assign_kept(rampage, g_chrom, g_start, g_end, g_strand, prom)
    IN  [i \in 1..Len(kept) |->
            [s |-> End5(kept[i], g_strand) - FLANK5,
             e |-> End5(kept[i], g_strand) + FLANK5,
             lab |-> <<>>]]

-----------------------------------------------------------------------------
(* cal_height and fetch_peak.  A fetch on a chromosome the indexed file    *)
(* does not hold raises (ValueError); Counter(...).most_common(1)[0] of an *)
(* empty list raises (IndexError).  err records that the call raised.      *)

TabixRaises(file, chrom) == chrom \notin Contigs(file)

\* Counter(sites).most_common(1)[0][1]: the largest multiplicity in sites
MostCommonCount(sites) ==
    LET Count(x) == Cardinality({i \in 1..Len(sites) : sites[i] = x})
    IN  CHOOSE c \in 1..Len(sites) :
            /\ \E x \in Range(sites) : Count(x) = c
            /\ \A x \in Range(sites) : Count(x) <= c

cal_height(p, tagf) ==
    IF TabixRaises(tagf, p.chrom)
    THEN [err |-> TRUE, height |-> 0, total |-> 0]
    ELSE LET reads == TabixFetch(tagf, p.chrom, p.start, p.end + 1)
             sites == [i \in 1..Len(reads) |-> reads[i].start]
         IN  IF sites = <<>>
             THEN [err |-> TRUE, height |-> 0, total |-> 0]
             ELSE [err |-> FALSE, height |-> MostCommonCount(sites),
                   total |-> Len(sites)]

\* p + '\t%d' % total
WithTotal(p, total) ==
    [chrom |-> p.chrom, start |-> p.start, end |-> p.end, value |-> p.value,
     total |-> total]

\* the comparison of line 213 turned round
TooLowFlipped(height, minh) == height > minh

\* line 213: the peak is skipped when this holds
TooLow(height, minh) == height < minh

fetch_peak(peak5, tag, peak_loc, chrom, minh) ==
    LET windows == Interval(peak_loc)
        fetched == UNION {Range(TabixFetch(peak5, chrom, windows[i].s,
                                           windows[i].e)) :
                          i \in 1..Len(windows)}
    IN  IF windows # <<>> /\ TabixRaises(peak5, chrom)
        THEN [err |-> TRUE, peaks |-> {}]
        ELSE IF \E p \in fetched : cal_height(p, tag).err
        THEN [err |-> TRUE, peaks |-> {}]
        ELSE [err |-> FALSE,
              peaks |-> {WithTotal(p, cal_height(p, tag).total) :
                         p \in {x \in fetched :
                                ~TooLow(cal_height(x, tag).height, minh)}}]

-----------------------------------------------------------------------------
(* cal_expression: e_mean is the quotient <<sum, n>>; var is the square    *)
(* root of the quotient var2 = <<n*sumsq - sum^2, n^3>>.                   *)

RECURSIVE SumSeq(_)
SumSeq(q) == IF q = <<>> THEN 0 ELSE Head(q) + SumSeq(Tail(q))

cal_expression(peak3, g_chrom, g_start, g_end) ==
    IF TabixRaises(peak3, g_chrom)
    THEN [err |-> TRUE, e_mean |-> <<0, 1>>, var2 |-> <<0, 1>>]
    ELSE LET recs == TabixFetch(peak3, g_chrom, g_start, g_end)
             expression == [i \in 1..Len(recs) |-> recs[i].value]
             n == Len(expression)
             sum == SumSeq(expression)
             sumsq == SumSeq([i \in 1..n |-> expression[i] * expression[i]])
         IN  IF n = 0
             THEN [err |-> FALSE, e_mean |-> <<0, 1>>, var2 |-> <<0, 1>>]
             ELSE [err |-> FALSE, e_mean |-> <<sum, n>>,
                   var2 |-> <<n * sumsq - sum * sum, n * n * n>>]

-----------------------------------------------------------------------------
(* wald_test: z = (value - mean) / var and p = norm.sf(z).  The survival   *)
(* function is tabulated in hundredths at the integer part of z, clipped   *)
(* to -3..3; var > 0 here (call_peak_for_gene returned before otherwise).  *)

\* k <= (value - mean) / var, by signs and squares
ZAtLeast(k, value, e_mean, var2) ==
    LET d == value * e_mean[2] - e_mean[1]             \* (value - mean) * n
        lhs == d * d * var2[2]                         \* (value - mean)^2 ...
        rhs == k * k * var2[1] * e_mean[2] * e_mean[2] \* ... against k^2 var^2
    IN  IF k <= 0
        THEN d >= 0 \/ lhs <= rhs
        ELSE d >= 0 /\ lhs >= rhs

ZFloor(value, e_mean, var2) ==
    IF ZAtLeast(3, value, e_mean, var2) THEN 3
    ELSE IF ZAtLeast(2, value, e_mean, var2) THEN 2
    ELSE IF ZAtLeast(1, value, e_mean, var2) THEN 1
    ELSE IF ZAtLeast(0, value, e_mean, var2) THEN 0
    ELSE IF ZAtLeast(-1, value, e_mean, var2) THEN -1
    ELSE IF ZAtLeast(-2, value, e_mean, var2) THEN -2
    ELSE -3

NormSf(k) ==
    CASE k = 3 -> 0 [] k = 2 -> 2 [] k = 1 -> 16 [] k = 0 -> 50
      [] k = -1 -> 84 [] k = -2 -> 98 [] OTHER -> 100

wald_test(value, e_mean, var2) ==
    LET z == ZFloor(value, e_mean, var2) IN [z |-> z, p |-> NormSf(z)]

-----------------------------------------------------------------------------
(* fetch_expression and filter_peak *)

\* line 277 with <= for <: the last of the equally near labels wins
NearerOrEqual(distance, nearest_d) == distance <= nearest_d

\* line 277: the label replaces the nearest one so far when this holds
Nearer(distance, nearest_d) == distance < nearest_d

\* lines 272-280; nearest is <<>> (nearest_d = inf) or <<nearest_p, nearest_d>>
RECURSIVE NearestLoop(_, _, _)
NearestLoop(promoter_list, pos, nearest) ==
    IF promoter_list = <<>> THEN nearest
    ELSE LET ploc == Head(promoter_list)
             distance == Abs(pos - ploc)
         IN  NearestLoop(Tail(promoter_list), pos,
                         IF nearest = <<>> \/ Nearer(distance, nearest[2])
                         THEN <<ploc, distance>> ELSE nearest)

\* the result is 'None' (none) or the label str(p)
fetch_expression(gp, pos) ==
    LET promoter_list == mapto(pos, gp)
    IN  IF promoter_list = <<>> THEN [none |-> TRUE, p |-> 0]
        ELSE [none |-> FALSE,
              p |-> NearestLoop(promoter_list[1].lab, pos, <<>>)[1]]

\* int((int(start) + int(end)) / 2), coordinates not negative
Midpoint(start, end) == (start + end) \div 2

\* peaks is the set in the order the loop iterates it
filter_peak(peaks_order, e_mean, var2, gp) ==
    [i \in 1..Len(peaks_order) |->
        LET p == peaks_order[i]
            w == wald_test(p.value, e_mean, var2)
        IN  [start |-> p.start, end |-> p.end,
             einfo |-> fetch_expression(gp, Midpoint(p.start, p.end)),
             total |-> p.total, value |-> p.value, p_value |-> w.p]]

-----------------------------------------------------------------------------
(* call_peak_for_gene: the outcomes the task can have.  A task either      *)
(* raises, or returns (None, None), or returns (gene_info, filtered_peaks) *)
(* with the peaks in one of the orders the set can be iterated in.         *)

Raised == [raised |-> TRUE, gene_info |-> FALSE, peak |-> <<>>]
NullPair == [raised |-> FALSE, gene_info |-> FALSE, peak |-> <<>>]

\* src: the indexed files of the gene's strand
call_peak_for_gene(src, gene, prom, h) ==
    LET peak_loc == assign_peak(src.rampage, gene.chrom, gene.start, gene.end,
                                gene.strand, prom)
        fp == fetch_peak(src.peak5, src.tag, peak_loc, gene.chrom, h)
        ex == cal_expression(src.peak3, gene.chrom, gene.start, gene.end)
    IN  IF peak_loc = <<>> THEN {NullPair}
        ELSE IF fp.err THEN {Raised}
        ELSE IF ex.err THEN {Raised}
        ELSE IF ex.e_mean[1] = 0 THEN {NullPair}
        ELSE IF ex.var2[1] = 0 THEN {NullPair}
        ELSE {[raised |-> FALSE, gene_info |-> TRUE,
               peak |-> filter_peak(o, ex.e_mean, ex.var2, gene.gp)] :
              o \in Orders(fp.peaks)}

-----------------------------------------------------------------------------
(* Values of the variables a specification does not use *)

IdleFn == arg = <<>> /\ ret = <<>> /\ called = FALSE

IdleParse ==
    /\ ref_flag = TRUE /\ db = <<>> /\ lineno = 0
    /\ gname = "" /\ gstart = 0 /\ gend = 0 /\ gchr = <<>> /\ gstrand = ""
    /\ gpromoter = <<>> /\ yielded = <<>> /\ ppc = "idle"

IdleRun ==
    /\ genes = <<>> /\ nsub = 0 /\ done = <<>> /\ result = <<>>
    /\ pc = "idle" /\ cursor = 0 /\ gets = <<>>
    /\ peaks = <<>> /\ pvalue = <<>> /\ rank = <<>> /\ qvalue = <<>>
    /\ opened = FALSE /\ outf = <<>>

\* sequences of records of S of length lo..hi in file order (sorted by start)
SortedFiles(S, lo, hi) ==
    {q \in SeqsUpTo(S, hi) :
        /\ Len(q) >= lo
        /\ \A i \in 1..(Len(q) - 1) : q[i].start <= q[i + 1].start}

-----------------------------------------------------------------------------
(* SpecAssign: assign_peak applied to a gene and a tag-alignment file *)

MaxAln == 2

Alignments ==
    {[chrom |-> chr1, start |-> s, end |-> s + len, strand |-> st] :
        s \in {15, 25, 45}, len \in {10, 30}, st \in {"+", "-", "."}}

InitAssign ==
    /\ arg \in [rampage : SortedFiles(Alignments, 0, MaxAln),
                g_chrom : {chr1, chr2}, g_start : {20}, g_end : {40},
                g_strand : {"+", "-"}, prom : {0, 5}]
    /\ ret = [peak_loc |-> <<>>, kept |-> <<>>]
    /\ called = FALSE
    /\ IdleParse /\ IdleRun

CallAssignPeak ==
    /\ ~called
    /\ called' = TRUE
    /\ ret' = [peak_loc |-> assign_peak(arg.rampage, arg.g_chrom, arg.g_start,
                                        arg.g_end, arg.g_strand, arg.prom),
               kept |-> assign_kept(arg.rampage, arg.g_chrom, arg.g_start,
                                    arg.g_end, arg.g_strand, arg.prom)]
    /\ UNCHANGED <<arg, parseVars, runVars>>

SpecAssign == InitAssign /\ [][CallAssignPeak]_vars

-----------------------------------------------------------------------------
(* SpecFetch: fetch_peak applied twice, with thresholds h1 <= h2, to the   *)
(* same candidate loci, peak records and tag records                       *)

MaxLoc == 2
MaxPeak == 2
MaxTag == 4
MaxMinH == 3

Loci == {[s |-> e5 - FLANK5, e |-> e5 + FLANK5, lab |-> <<>>] : e5 \in {20, 35, 60}}

PeakRecords ==
    {[chrom |-> chr1, start |-> 18, end |-> 22, value |-> 9],
     [chrom |-> chr1, start |-> 30, end |-> 33, value |-> 9],
     [chrom |-> chr1, start |-> 58, end |-> 62, value |-> 9]}

TagRecords ==
    {[chrom |-> chr1, start |-> x, end |-> x + 1] : x \in {20, 21, 31}}

InitFetch ==
    /\ arg \in [peak_loc : SeqsUpTo(Loci, MaxLoc),
                peak5 : SortedFiles(PeakRecords, 0, MaxPeak),
                tag : SortedFiles(TagRecords, 1, MaxTag),
                chrom : {chr1},
                h1 : 1..MaxMinH, h2 : 1..MaxMinH]
    /\ arg.h1 <= arg.h2
    /\ ret = [r1 |-> [err |-> FALSE, peaks |-> {}],
              r2 |-> [err |-> FALSE, peaks |-> {}]]
    /\ called = FALSE
    /\ IdleParse /\ IdleRun

CallFetchPeak ==
    /\ ~called
    /\ called' = TRUE
    /\ ret' = [r1 |-> fetch_peak(arg.peak5, arg.tag, arg.peak_loc, arg.chrom,
                                 arg.h1),
               r2 |-> fetch_peak(arg.peak5, arg.tag, arg.peak_loc, arg.chrom,
                                 arg.h2)]
    /\ UNCHANGED <<arg, parseVars, runVars>>

SpecFetch == InitFetch /\ [][CallFetchPeak]_vars

-----------------------------------------------------------------------------
(* SpecProm: filter_peak applied to one surviving peak and a promoter set  *)

MaxTss == 3

\* [tss - prom, tss + prom, str(tss)] as parse_gene appends it
PromoterWindow(tss, prom) == [s |-> tss - prom, e |-> tss + prom, lab |-> <<tss>>]

InitProm ==
    /\ arg \in [tss : SeqsUpTo({10, 14, 20, 40}, MaxTss), prom : {3, 5},
                start : {8, 11, 16, 30}, len : {1, 2, 3}]
    /\ ret = [none |-> TRUE, p |-> 0]
    /\ called = FALSE
    /\ IdleParse /\ IdleRun

ArgPromoter ==
    Interval([i \in 1..Len(arg.tss) |-> PromoterWindow(arg.tss[i], arg.prom)])

ArgPeak ==
    [chrom |-> chr1, start |-> arg.start, end |-> arg.start + arg.len,
     value |-> 9, total |-> 3]

CallFilterPeak ==
    /\ ~called
    /\ called' = TRUE
    /\ ret' = filter_peak(<<ArgPeak>>, <<5, 1>>, <<1, 1>>, ArgPromoter)[1].einfo
    /\ UNCHANGED <<arg, parseVars, runVars>>

SpecProm == InitProm /\ [][CallFilterPeak]_vars

-----------------------------------------------------------------------------
(* Claims about assign_peak, fetch_peak and fetch_expression *)

\* C5: whatever the value of an alignment's strand field, an alignment whose
\* strand differs from the gene's strand never produces a candidate locus:
\* every alignment that reached the append has the gene's strand.
C5_StrandFilter ==
    called =>
        /\ Len(ret.peak_loc) = Len(ret.kept)
        /\ \A i \in 1..Len(ret.kept) : ret.kept[i].strand = arg.g_strand

\* C7: with thresholds h1 <= h2 and everything else fixed, fetch_peak with h2
\* returns a subset of what it returns with h1 (and returns in the same cases).
C7_HeightMonotone ==
    called =>
        /\ ret.r1.err <=> ret.r2.err
        /\ ret.r2.peaks \subseteq ret.r1.peaks

C7_Witness ==
    /\ called
    /\ arg.h1 < arg.h2
    /\ ~ret.r1.err
    /\ ret.r2.peaks # {}
    /\ ret.r2.peaks # ret.r1.peaks

\* the tag records in the span [p.start, p.end + 1) of a peak record
TagsInSpan(p, tag) ==
    {i \in 1..Len(tag) :
        tag[i].chrom = p.chrom /\ tag[i].start < p.end + 1 /\ tag[i].end > p.start}

\* the largest number of tag records in the span sharing a position
SpanHeight(p, tag) ==
    LET counts == {Cardinality({j \in TagsInSpan(p, tag) :
                                tag[j].start = tag[i].start}) :
                   i \in TagsInSpan(p, tag)} \cup {0}
    IN  CHOOSE c \in counts : \A d \in counts : d <= c

\* the peak records the 5'-end peak index returns for the merged windows
PeaksOfWindows(peak5, peak_loc, chrom) ==
    LET windows == Interval(peak_loc)
    IN  UNION {Range(TabixFetch(peak5, chrom, windows[i].s, windows[i].e)) :
               i \in 1..Len(windows)}

\* C8: for every peak record returned for a merged window, a peak with no tag
\* record in its span included, height is the largest number of tag records
\* of the span at one position and total their number, and fetch_peak keeps
\* the peak, with total, iff height >= the minimum height, otherwise goes on.
C8_HeightAndFilter ==
    called =>
        \A p \in PeaksOfWindows(arg.peak5, arg.peak_loc, arg.chrom) :
            /\ ~ret.r1.err
            /\ SpanHeight(p, arg.tag) >= arg.h1
                   <=> WithTotal(p, Cardinality(TagsInSpan(p, arg.tag)))
                           \in ret.r1.peaks

\* the labels of the merged promoter intervals that cover m, in order
CoveringLabels(gp, m) ==
    LET Covers(iv) == iv.s <= m /\ m < iv.e
        cov == SelectSeq(gp, Covers)
    IN  Flatten([i \in 1..Len(cov) |-> cov[i].lab])

\* C9: with m = floor((start + end) / 2), the result is 'None' when no merged
\* promoter interval covers m; otherwise it is the label L of the covering
\* interval(s) with |m - L| least, the first such label in order on a tie.
C9_NearestPromoter ==
    called =>
        LET m == (arg.start + arg.start + arg.len) \div 2
            labs == CoveringLabels(ArgPromoter, m)
        IN  IF labs = <<>> THEN ret.none
            ELSE /\ ~ret.none
                 /\ \E k \in 1..Len(labs) :
                        /\ ret.p = labs[k]
                        /\ \A j \in 1..Len(labs) :
                               Abs(m - labs[k]) <= Abs(m - labs[j])
                        /\ \A j \in 1..(k - 1) :
                               Abs(m - labs[k]) < Abs(m - labs[j])

\* a tie between two labels, resolved for the first
C9_Witness ==
    /\ called
    /\ ~ret.none
    /\ LET m == (arg.start + arg.start + arg.len) \div 2
           labs == CoveringLabels(ArgPromoter, m)
       IN  \E j, k \in 1..Len(labs) :
               /\ j < k
               /\ labs[j] # labs[k]
               /\ Abs(m - labs[j]) = Abs(m - labs[k])
               /\ ret.p = labs[j]

-----------------------------------------------------------------------------
(* SpecParse: the generator parse_gene(db, ref_flag, prom).  With ref_flag *)
(* db is the sequence of the rows of the GenePred table, otherwise the     *)
(* sequence of the gene features of the GTF database, each with its child  *)
(* transcripts.  lineno counts the rows (genes) the loop has consumed; a   *)
(* yield and the resumption after it are one step.  arg.prom is prom.      *)

MaxRows == 3
MaxGtf == 2

\* a local variable no statement has assigned yet
Unbound == "<unbound>"

NotChr == <<"1">>

TableRows ==
    {[gene_id |-> g, chrom |-> c, strand |-> st, start |-> sp[1], end |-> sp[2]] :
        g \in {"g1", "g2"}, c \in {chr1, NotChr}, st \in {"+", "-"},
        sp \in {<<0, 5>>, <<3, 9>>}}

GtfTranscripts ==
    {<<[start |-> 1, end |-> 5]>>, <<[start |-> 1, end |-> 5], [start |-> 3, end |-> 9]>>}

GtfGenes ==
    {[id |-> g, seqid |-> c, start |-> 1, end |-> 9, strand |-> st, children |-> tx] :
        g \in {"g1", "g2"}, c \in {chr1, NotChr}, st \in {"+", "-"},
        tx \in GtfTranscripts}

InitParse ==
    /\ ref_flag \in BOOLEAN
    /\ db \in IF ref_flag THEN SeqsUpTo(TableRows, MaxRows)
              ELSE SeqsUpTo(GtfGenes, MaxGtf)
    /\ arg = [prom |-> 5]
    /\ ret = <<>> /\ called = FALSE
    /\ lineno = 0
    /\ gname = ""
    /\ gstart = 0 /\ gend = 0 /\ gchr = <<>>
    \* line 102 binds gstrand; nothing in the GTF branch does
    /\ gstrand = IF ref_flag THEN "" ELSE Unbound
    /\ gpromoter = <<>>
    /\ yielded = <<>>
    /\ ppc = "iter"
    /\ IdleRun

\* '%s\t%s\t%d\t%d\t%s' % (...)
GeneInfo(id, chrom, start, end, strand) ==
    [id |-> id, chrom |-> chrom, start |-> start, end |-> end, strand |-> strand]

\* what one yield hands to the caller
Triple(gene_info, promoter, strand) ==
    [gene_info |-> gene_info, gpromoter |-> Interval(promoter), gstrand |-> strand]

\* lines 128-133, with start and end already converted (lines 109-110)
RowPromoter(strand, start, end, prom) ==
    IF strand = "+" THEN PromoterWindow(start, prom) ELSE PromoterWindow(end, prom)

\* line 107-108: continue
SkipRow ==
    /\ ppc = "iter" /\ ref_flag /\ lineno < Len(db)
    /\ ~StartsWithChr(db[lineno + 1].chrom)
    /\ lineno' = lineno + 1
    /\ UNCHANGED <<ref_flag, db, gname, gstart, gend, gchr, gstrand, gpromoter,
                   yielded, ppc, fnVars, runVars>>

\* lines 111-117 and 128-133: gene not changed
SameGene ==
    /\ ppc = "iter" /\ ref_flag /\ lineno < Len(db)
    /\ LET row == db[lineno + 1]
           start == row.start + 1
           end == row.end
       IN  /\ StartsWithChr(row.chrom)
           /\ gname = row.gene_id \/ gname = ""
           /\ IF gname = ""
              THEN /\ gname' = row.gene_id
                   /\ gstart' = start /\ gend' = end
                   /\ gchr' = row.chrom /\ gstrand' = row.strand
              ELSE /\ gstart' = IF start < gstart THEN start ELSE gstart
                   /\ gend' = IF end > gend THEN end ELSE gend
                   /\ UNCHANGED <<gname, gchr, gstrand>>
           /\ gpromoter' = Append(gpromoter,
                                  RowPromoter(row.strand, start, end, arg.prom))
    /\ lineno' = lineno + 1
    /\ UNCHANGED <<ref_flag, db, yielded, ppc, fnVars, runVars>>

\* lines 118-133: gene changed
GeneChanged ==
    /\ ppc = "iter" /\ ref_flag /\ lineno < Len(db)
    /\ LET row == db[lineno + 1]
           start == row.start + 1
           end == row.end
       IN  /\ StartsWithChr(row.chrom)
           /\ ~(gname = row.gene_id \/ gname = "")
           /\ yielded' = Append(yielded,
                                Triple(GeneInfo(gname, gchr, gstart, gend, gstrand),
                                       gpromoter, gstrand))
           /\ gname' = row.gene_id
           /\ gstart' = start /\ gend' = end
           /\ gchr' = row.chrom /\ gstrand' = row.strand
           /\ gpromoter' = <<RowPromoter(row.strand, start, end, arg.prom)>>
    /\ lineno' = lineno + 1
    /\ UNCHANGED <<ref_flag, db, ppc, fnVars, runVars>>

\* lines 134-138: the else clause of the for loop, run when the table ends
LastEntry ==
    /\ ppc = "iter" /\ ref_flag /\ lineno = Len(db)
    /\ yielded' = Append(yielded,
                         Triple(GeneInfo(gname, gchr, gstart, gend, gstrand),
                                gpromoter, gstrand))
    /\ ppc' = "done"
    /\ UNCHANGED <<ref_flag, db, lineno, gname, gstart, gend, gchr, gstrand,
                   gpromoter, fnVars, runVars>>

\* lines 148-155
GtfPromoter(gene, prom) ==
    [i \in 1..Len(gene.children) |->
        IF gene.strand = "+" THEN PromoterWindow(gene.children[i].start, prom)
        ELSE PromoterWindow(gene.children[i].end, prom)]

\* lines 141-142: continue
SkipGene ==
    /\ ppc = "iter" /\ ~ref_flag /\ lineno < Len(db)
    /\ ~StartsWithChr(db[lineno + 1].seqid)
    /\ lineno' = lineno + 1
    /\ UNCHANGED <<ref_flag, db, gname, gstart, gend, gchr, gstrand, gpromoter,
                   yielded, ppc, fnVars, runVars>>

\* lines 143-157: reading the unbound gstrand at the yield raises
\* UnboundLocalError, which ends the generator
GtfGene ==
    /\ ppc = "iter" /\ ~ref_flag /\ lineno < Len(db)
    /\ LET gene == db[lineno + 1]
       IN  /\ StartsWithChr(gene.seqid)
           /\ gpromoter' = GtfPromoter(gene, arg.prom)
           /\ IF gstrand = Unbound
              THEN /\ ppc' = "raised"
                   /\ UNCHANGED <<yielded, lineno>>
              ELSE /\ yielded' = Append(yielded,
                                        Triple(GeneInfo(gene.id, gene.seqid,
                                                        gene.start, gene.end,
                                                        gene.strand),
                                               GtfPromoter(gene, arg.prom),
                                               gstrand))
                   /\ lineno' = lineno + 1
                   /\ UNCHANGED ppc
    /\ UNCHANGED <<ref_flag, db, gname, gstart, gend, gchr, gstrand, fnVars,
                   runVars>>

\* the loop of line 140 ends
GtfEnd ==
    /\ ppc = "iter" /\ ~ref_flag /\ lineno = Len(db)
    /\ ppc' = "done"
    /\ UNCHANGED <<ref_flag, db, lineno, gname, gstart, gend, gchr, gstrand,
                   gpromoter, yielded, fnVars, runVars>>

NextParse == SkipRow \/ SameGene \/ GeneChanged \/ LastEntry
             \/ SkipGene \/ GtfGene \/ GtfEnd

SpecParse == InitParse /\ [][NextParse]_vars

-----------------------------------------------------------------------------
(* Claims about parse_gene *)

\* the rows of the table whose chromosome starts with "chr", in input order
ChrRows == LET IsChr(row) == StartsWithChr(row.chrom) IN SelectSeq(db, IsChr)

\* the first rows of the maximal runs of chr rows sharing a gene id
RunHeads ==
    LET rows == ChrRows
        heads == {i \in 1..Len(rows) : i = 1 \/ rows[i].gene_id # rows[i - 1].gene_id}
        Nth[k \in 0..Len(rows)] ==
            IF k = 0 THEN 0
            ELSE CHOOSE i \in heads : i > Nth[k - 1] /\
                     \A j \in heads : j > Nth[k - 1] => i <= j
    IN  [k \in 1..Cardinality(heads) |-> rows[Nth[k]]]

\* C3: the flat-table iterator yields exactly one gene per maximal run of
\* consecutive chr rows sharing a gene id, in input order, the last one once
\* at end of input; every gene yielded carries the id, chromosome and strand
\* of a chr row of the input.
C3_FlatYields ==
    ref_flag /\ ppc \in {"iter", "done"} =>
        /\ \A k \in 1..Len(yielded) :
               \E i \in 1..Len(ChrRows) :
                   /\ yielded[k].gene_info.id = ChrRows[i].gene_id
                   /\ yielded[k].gene_info.chrom = ChrRows[i].chrom
                   /\ yielded[k].gstrand = ChrRows[i].strand
        /\ ppc = "done" =>
               /\ Len(yielded) = Len(RunHeads)
               /\ \A k \in 1..Len(yielded) :
                      yielded[k].gene_info.id = RunHeads[k].gene_id

\* the chr genes among those the hierarchical iterator has reached
ChrGenesReached ==
    LET IsChr(gene) == StartsWithChr(gene.seqid)
        upto == IF ppc = "raised" THEN lineno + 1 ELSE lineno
    IN  SelectSeq(SubSeq(db, 1, upto), IsChr)

\* C4: the hierarchical iterator yields, for every chr gene, a triple whose
\* third element is that gene's strand, as the flat-table one does, and
\* completes the yield without failing.
C4_SameContract ==
    ~ref_flag /\ ppc \in {"iter", "done", "raised"} =>
        /\ ppc # "raised"
        /\ Len(yielded) = Len(ChrGenesReached)
        /\ \A k \in 1..Len(yielded) :
               /\ yielded[k].gene_info.id = ChrGenesReached[k].id
               /\ yielded[k].gstrand = ChrGenesReached[k].strand

-----------------------------------------------------------------------------
(* call_peak: the indexed files of a run.  rampage_link.bed is one file;   *)
(* the 5'-end peaks, the 3'-end densities and the tags are one file per    *)
(* strand (the dictionaries peak5, peak3 and tag of lines 55-69).          *)

Aln(start, end, strand) == [chrom |-> chr1, start |-> start, end |-> end, strand |-> strand]
Pk(start, end, value) == [chrom |-> chr1, start |-> start, end |-> end, value |-> value]
Tg(x) == [chrom |-> chr1, start |-> x, end |-> x + 1]

rampage ==
    <<Aln(100, 130, "+"), Aln(205, 235, "-"), Aln(210, 215, "-"),
      Aln(400, 430, "+"), Aln(500, 530, "+"), Aln(600, 630, "+"),
      Aln(700, 730, "+")>>

peak5 ==
    [strand \in {"+", "-"} |->
        IF strand = "+"
        THEN <<Pk(98, 102, 6), Pk(398, 402, 9), Pk(498, 502, 9), Pk(598, 602, 9),
               Pk(698, 702, 9)>>
        ELSE <<Pk(214, 216, 7), Pk(234, 236, 3)>>]

tag ==
    [strand \in {"+", "-"} |->
        IF strand = "+"
        THEN <<Tg(100), Tg(100), Tg(100), Tg(400), Tg(400), Tg(400),
               Tg(500), Tg(500), Tg(500), Tg(700), Tg(700), Tg(700)>>
        ELSE <<Tg(215), Tg(215), Tg(215), Tg(235), Tg(235), Tg(235), Tg(235)>>]

peak3 ==
    [strand \in {"+", "-"} |->
        IF strand = "+"
        THEN <<Pk(110, 120, 4), Pk(120, 130, 6), Pk(510, 520, 7),
               Pk(710, 720, 3), Pk(720, 730, 3)>>
        ELSE <<Pk(210, 220, 2), Pk(220, 230, 4)>>]

\* line 76: p5, p3, t = peak5[gstrand], peak3[gstrand], tag[gstrand]
Sources(strand) ==
    [rampage |-> rampage, peak5 |-> peak5[strand], peak3 |-> peak3[strand],
     tag |-> tag[strand]]

\* a gene as parse_gene yields it: gene_info and the merged promoter set
Gene(id, start, end, strand, tss, prom) ==
    [id |-> id, chrom |-> chr1, start |-> start, end |-> end, strand |-> strand,
     gp |-> Interval(<<PromoterWindow(tss, prom)>>)]

\* the genes of the annotation a run may hold (prom is 5 in these runs):
\* gA one peak; gB two peaks; gC no alignment; gD no 3'-end record;
\* gE one 3'-end record; gF a peak without tags and no 3'-end record;
\* gG two identical 3'-end records
Annotation ==
    {Gene("gA", 100, 140, "+", 100, 5), Gene("gB", 200, 240, "-", 240, 5),
     Gene("gC", 300, 340, "+", 300, 5), Gene("gD", 400, 440, "+", 400, 5),
     Gene("gE", 500, 540, "+", 500, 5), Gene("gF", 600, 640, "+", 600, 5),
     Gene("gG", 700, 740, "+", 700, 5)}

MaxGenes == 3

InitRun ==
    /\ genes \in {q \in SeqsUpTo(Annotation, MaxGenes) :
                     \A i, j \in 1..Len(q) : i # j => q[i] # q[j]}
    /\ arg = [prom |-> 5, minh |-> 3]
    /\ ret = <<>> /\ called = FALSE
    /\ nsub = 0
    /\ done = <<>>
    /\ result = [i \in 1..Len(genes) |-> NullPair]
    /\ pc = "submit"
    /\ cursor = 0
    /\ gets = [i \in 1..Len(genes) |-> 0]
    /\ peaks = <<>> /\ pvalue = <<>> /\ rank = <<>> /\ qvalue = <<>>
    /\ opened = FALSE /\ outf = <<>>
    /\ IdleParse

\* lines 75-79: the next gene of parse_gene is submitted to the pool
Submit ==
    /\ pc = "submit" /\ nsub < Len(genes)
    /\ nsub' = nsub + 1
    /\ UNCHANGED <<genes, done, result, pc, cursor, gets, peaks, pvalue, rank,
                   qvalue, opened, outf, fnVars, parseVars>>

\* line 80, and line 81 entered: the pool is closed, call_peak waits in join
ClosePool ==
    /\ pc = "submit" /\ nsub = Len(genes)
    /\ pc' = "join"
    /\ UNCHANGED <<genes, nsub, done, result, cursor, gets, peaks, pvalue, rank,
                   qvalue, opened, outf, fnVars, parseVars>>

\* a worker runs a submitted task to its end; done is the completion order
TaskComplete(i) ==
    /\ i \in 1..nsub /\ i \notin Range(done)
    /\ \E outcome \in call_peak_for_gene(Sources(genes[i].strand), genes[i],
                                         arg.prom, arg.minh) :
           result' = [result EXCEPT ![i] = outcome]
    /\ done' = Append(done, i)
    /\ UNCHANGED <<genes, nsub, pc, cursor, gets, peaks, pvalue, rank, qvalue,
                   opened, outf, fnVars, parseVars>>

\* line 81 with no wait: what a missing join would do
JoinNoWait ==
    /\ pc = "join"
    /\ pc' = "collect"
    /\ cursor' = 1
    /\ UNCHANGED <<genes, nsub, done, result, gets, peaks, pvalue, rank, qvalue,
                   opened, outf, fnVars, parseVars>>

\* line 81: join returns once every task has completed
Join ==
    /\ pc = "join"
    /\ Range(done) = 1..nsub
    /\ pc' = "collect"
    /\ cursor' = 1
    /\ UNCHANGED <<genes, nsub, done, result, gets, peaks, pvalue, rank, qvalue,
                   opened, outf, fnVars, parseVars>>

\* lines 84-88 for the handle of task i: r.get() waits for the task, then
\* re-raises its exception or returns its pair
CollectFrom(i) ==
    /\ i \in Range(done)
    /\ gets' = [gets EXCEPT ![i] = @ + 1]
    /\ IF result[i].raised
       THEN /\ pc' = "aborted"
            /\ UNCHANGED <<cursor, peaks, pvalue>>
       ELSE /\ cursor' = cursor + 1
            /\ UNCHANGED pc
            /\ IF result[i].gene_info
               THEN /\ peaks' = peaks \o [k \in 1..Len(result[i].peak) |->
                                             [gene |-> genes[i].id,
                                              peak |-> result[i].peak[k]]]
                    /\ pvalue' = pvalue \o [k \in 1..Len(result[i].peak) |->
                                               result[i].peak[k].p_value]
               ELSE UNCHANGED <<peaks, pvalue>>
    /\ UNCHANGED <<genes, nsub, done, result, rank, qvalue, opened, outf,
                   fnVars, parseVars>>

\* the handles walked in the order the tasks completed
CollectInCompletionOrder ==
    /\ pc = "collect" /\ cursor <= Len(genes) /\ cursor <= Len(done)
    /\ CollectFrom(done[cursor])

\* line 83: for r in results, the handles in the order they were appended
Collect ==
    /\ pc = "collect" /\ cursor <= Len(genes)
    /\ CollectFrom(cursor)

\* np.array(pvalue).argsort(): the index orders that sort pvalue ascending
\* (the default sort is not stable: equal values may come in any order)
ArgSorts(pv) ==
    {a \in Orders(1..Len(pv)) :
        \A r \in 1..(Len(pv) - 1) : pv[a[r]] <= pv[a[r + 1]]}

\* line 90: {p: r for r, p in enumerate(argsort)}, r counted from 0
RankOf(argsort) ==
    [n \in 1..Len(argsort) |->
        (CHOOSE r \in 1..Len(argsort) : argsort[r] = n) - 1]

\* the q-value capped at 1 (100 hundredths)
QValueClamped(p, total_num, r) ==
    IF p * total_num > 100 * (r + 1) THEN <<100, 1>> ELSE <<p * total_num, r + 1>>

\* line 92: p * total_num / (rank[n] + 1)
QValue(p, total_num, r) == <<p * total_num, r + 1>>

\* lines 90-92
Correct ==
    /\ pc = "collect" /\ cursor = Len(genes) + 1
    /\ \E argsort \in ArgSorts(pvalue) :
           /\ rank' = RankOf(argsort)
           /\ qvalue' = [n \in 1..Len(pvalue) |->
                            QValue(pvalue[n], Len(pvalue), RankOf(argsort)[n])]
    /\ pc' = "open"
    /\ UNCHANGED <<genes, nsub, done, result, cursor, gets, peaks, pvalue,
                   opened, outf, fnVars, parseVars>>

\* line 94: open(..., 'w') creates or empties the file
OpenOut ==
    /\ pc = "open"
    /\ opened' = TRUE
    /\ outf' = <<>>
    /\ pc' = "write"
    /\ UNCHANGED <<genes, nsub, done, result, cursor, gets, peaks, pvalue, rank,
                   qvalue, fnVars, parseVars>>

\* '%f' % q: q, a number of hundredths, rounded to a number of millionths
FormatF(q) == (2 * q[1] * 10000 + q[2]) \div (2 * q[2])

\* zip(peaks, qvalue) stops at the shorter list
ZipLen == IF Len(peaks) < Len(qvalue) THEN Len(peaks) ELSE Len(qvalue)

\* lines 95-96: one row
WriteRow ==
    /\ pc = "write" /\ Len(outf) < ZipLen
    /\ outf' = Append(outf, [row |-> peaks[Len(outf) + 1],
                             q |-> FormatF(qvalue[Len(outf) + 1])])
    /\ UNCHANGED <<genes, nsub, done, result, pc, cursor, gets, peaks, pvalue,
                   rank, qvalue, opened, fnVars, parseVars>>

\* the with block ends
CloseOut ==
    /\ pc = "write" /\ Len(outf) = ZipLen
    /\ pc' = "done"
    /\ UNCHANGED <<genes, nsub, done, result, cursor, gets, peaks, pvalue, rank,
                   qvalue, opened, outf, fnVars, parseVars>>

NextRun ==
    \/ Submit
    \/ ClosePool
    \/ \E i \in 1..Len(genes) : TaskComplete(i)
    \/ Join
    \/ Collect
    \/ Correct
    \/ OpenOut
    \/ WriteRow
    \/ CloseOut

SpecRun == InitRun /\ [][NextRun]_vars

-----------------------------------------------------------------------------
(* SpecCorrect: lines 89-96 applied to a collected list of p-values (in    *)
(* hundredths), call_peak being at the end of the aggregation loop         *)

MaxP == 4

PValues == {1, 3, 4, 20, 60}

InitCorrect ==
    /\ pvalue \in SeqsUpTo(PValues, MaxP)
    /\ peaks = [n \in 1..Len(pvalue) |-> [gene |-> "g", peak |-> n]]
    /\ genes = <<>> /\ nsub = 0 /\ done = <<>> /\ result = <<>> /\ gets = <<>>
    /\ cursor = 1
    /\ pc = "collect"
    /\ rank = <<>> /\ qvalue = <<>>
    /\ opened = FALSE /\ outf = <<>>
    /\ IdleFn /\ IdleParse

NextCorrect == Correct \/ OpenOut \/ WriteRow \/ CloseOut

SpecCorrect == InitCorrect /\ [][NextCorrect]_vars

-----------------------------------------------------------------------------
(* Claims about call_peak *)

\* the rows task i contributes: gene_info + '\t' + p[0] for each of its peaks
RowsOf(i) ==
    IF result[i].gene_info
    THEN [k \in 1..Len(result[i].peak) |->
             [gene |-> genes[i].id, peak |-> result[i].peak[k]]]
    ELSE <<>>

\* the rows of tasks 1..n in submission order
RowsUpTo(n) == Flatten([i \in 1..n |-> RowsOf(i)])

AllTasksDone == nsub = Len(genes) /\ Range(done) = 1..Len(genes)

\* C1: no task result is read and nothing is written until every submitted
\* task has completed; no row is written until the p-values of all genes are
\* collected and every q-value is computed; the rows are then written in one
\* pass, in the order of the collected list.
C1_OutputAfterJoin ==
    /\ (\E i \in 1..Len(genes) : gets[i] > 0) => AllTasksDone
    /\ (opened \/ outf # <<>>) =>
           /\ AllTasksDone
           /\ opened
           /\ pc \in {"write", "done"}
           /\ \A i \in 1..Len(genes) : gets[i] = 1
           /\ peaks = RowsUpTo(Len(genes))
           /\ Len(pvalue) = Len(peaks)
           /\ Len(qvalue) = Len(pvalue)
           /\ Len(outf) <= Len(peaks)
           /\ \A k \in 1..Len(outf) : outf[k].row = peaks[k]
    /\ pc = "done" => Len(outf) = Len(peaks)

\* a finished run whose tasks completed out of submission order
C1_Witness ==
    /\ pc = "done"
    /\ Len(outf) >= 2
    /\ Len(genes) >= 2
    /\ done[1] # 1

\* C10: the results are collected by walking the handles in submission order,
\* each handle's result read once, so the genes of the rows, and of the
\* p-values, follow the submission order whatever the completion order.
C10_SubmissionOrder ==
    /\ \A i \in 1..Len(genes) :
           /\ gets[i] <= 1
           /\ i < cursor => gets[i] = 1
           /\ i > cursor => gets[i] = 0
    /\ cursor >= 1 =>
           /\ peaks = RowsUpTo(cursor - 1)
           /\ pvalue = [k \in 1..Len(peaks) |-> peaks[k].peak.p_value]
    /\ pc = "done" =>
           /\ \A i \in 1..Len(genes) : gets[i] = 1
           /\ [k \in 1..Len(outf) |-> outf[k].row] = RowsUpTo(Len(genes))

\* rows of two genes written, the second gene submitted having finished first
C10_Witness ==
    /\ pc = "done"
    /\ Len(genes) >= 2
    /\ done[1] = 2
    /\ \E k \in 1..(Len(outf) - 1) :
           /\ outf[k].row.gene = genes[1].id
           /\ outf[k + 1].row.gene = genes[2].id

\* a gene with no candidate locus, or no 3'-end expression record, or
\* expression records that are all identical
DataAbsent(gene) ==
    LET src == Sources(gene.strand)
        recs == TabixFetch(src.peak3, gene.chrom, gene.start, gene.end)
    IN  \/ assign_peak(src.rampage, gene.chrom, gene.start, gene.end,
                       gene.strand, arg.prom) = <<>>
        \/ recs = <<>>
        \/ \A i, j \in 1..Len(recs) : recs[i].value = recs[j].value

\* C6: for a gene with no candidate loci, no 3'-end records or identical
\* records, call_peak_for_gene returns the null pair, the gene contributes no
\* row, and the run goes on and writes the rows of the other genes.
C6_DataAbsentNonFatal ==
    /\ \A i \in Range(done) :
           DataAbsent(genes[i]) =>
               /\ result[i] = NullPair
               /\ \A k \in 1..Len(peaks) : peaks[k].gene # genes[i].id
               /\ ~(pc = "aborted" /\ cursor = i)
    /\ pc = "done" /\ (\A i \in 1..Len(genes) : DataAbsent(genes[i]) \/ ~result[i].raised)
           => [k \in 1..Len(outf) |-> outf[k].row] = RowsUpTo(Len(genes))

\* C2: the ranks of the N collected p-values are a permutation of 0..N-1 that
\* orders them ascending, and the q-value of position i is
\* p[i] * N / (rank[i] + 1), neither capped at 1 nor made monotonic; the row
\* written for position i carries that value (to the nearest millionth).
C2_RankAndQValue ==
    pc \in {"open", "write", "done"} =>
        LET N == Len(pvalue)
        IN  /\ Len(rank) = N /\ Len(qvalue) = N
            /\ {rank[i] : i \in 1..N} = 0..(N - 1)
            /\ \A i, j \in 1..N : pvalue[i] < pvalue[j] => rank[i] < rank[j]
            /\ \A i \in 1..N :
                   /\ qvalue[i][2] > 0
                   /\ qvalue[i][1] * (rank[i] + 1) = pvalue[i] * N * qvalue[i][2]
            /\ \A k \in 1..Len(outf) :
                   /\ outf[k].row = peaks[k]
                   /\ 2 * Abs(outf[k].q * (rank[k] + 1) - pvalue[k] * N * 10000)
                          <= rank[k] + 1

\* p = [0.01, 0.2, 0.03, 0.04]: ranks [0, 3, 1, 2], q = [0.04, 0.2, 0.06,
\* 0.04 * 4 / 3], written as 0.040000, 0.200000, 0.060000, 0.053333
C2_Witness ==
    /\ pc = "done"
    /\ pvalue = <<1, 20, 3, 4>>
    /\ rank = <<0, 3, 1, 2>>
    /\ qvalue = <<<<4, 1>>, <<80, 4>>, <<12, 2>>, <<16, 3>>>>
    /\ [k \in 1..Len(outf) |-> outf[k].q] = <<40000, 200000, 60000, 53333>>

=============================================================================
